---- MODULE Spec2Model ----
(***************************************************************************)
(* A model of src/operator/operator_common.h: attribute unification        *)
(* (shape_assign, type_assign and the three checked-assignment macros),    *)
(* gradient-node construction (MakeNode, MakeGradNode, MakeZeroGradNodes,  *)
(* CheckGradAllZero, MakeNonlossGradNode), ParamParser and the storage     *)
(* fallback FCompExFallback.                                               *)
(*                                                                         *)
(* A TShape is a sequence of naturals; axis i of the source (0-based) is   *)
(* element i+1 here.  A rank of 0 and an axis of 0 both mean "unknown".    *)
(* An element type or storage type is an integer, -1 meaning "unknown".    *)
(***************************************************************************)
EXTENDS Integers, Sequences, FiniteSets, TLC

VARIABLES
  \* attribute slots and the outcome of the last assignment (Spec)
  pass, shape_array, type_array, stype_array, last, ret, err,
  \* one slot unified with two candidates in both orders (SpecUnify)
  kind, T, X, Y, runXY, runYX,
  \* graph construction (SpecGraph)
  fwd, call, created, result, raised,
  \* storage fallback (SpecFallback)
  inputs, outputs, mutate_idx, pc, in_blobs, out_blobs, in_temp_idx_map,
  pre_temp_src, pre_temp_dst, post_temp_src, post_temp_dst, trace

unifyVars == <<pass, shape_array, type_array, stype_array, last, ret, err>>
algebraVars == <<kind, T, X, Y, runXY, runYX>>
graphVars == <<fwd, call, created, result, raised>>
fallbackVars == <<inputs, outputs, mutate_idx, pc, in_blobs, out_blobs, in_temp_idx_map,
                  pre_temp_src, pre_temp_dst, post_temp_src, post_temp_dst, trace>>
vars == <<unifyVars, algebraVars, graphVars, fallbackVars>>

-----------------------------------------------------------------------------
(* Bounds of the model *)

\* largest rank of a shape
MaxRank == 2
\* longest list of output gradients / forward inputs / dictionary entries
MaxList == 2
\* most inputs, outputs and mutated indices of one fallback call
MaxArgs == 2

\* Axis sizes: 0 (unknown) and two known sizes.  The code only compares axes
\* with 0 and with each other, so two distinct known sizes show every case.
Dims == {0, 1, 2}

RECURSIVE SeqsUpTo(_, _)
SeqsUpTo(S, n) ==
  IF n = 0 THEN {<<>>}
  ELSE LET shorter == SeqsUpTo(S, n - 1)
       IN  shorter \cup {Append(s, e) : s \in {q \in shorter : Len(q) = n - 1}, e \in S}

Shapes == SeqsUpTo(Dims, MaxRank)

\* indices of the slots of an attribute array
Indices == {0, 1}

-----------------------------------------------------------------------------
(* Type and storage-type codes *)

kFloat32 == 0
kFloat64 == 1
kFloat16 == 2
kUint8 == 3
kInt32 == 4
kDefaultStorage == 0
kRowSparseStorage == 1
kCSRStorage == 2

\* -1 (unknown), the five named element types and one code type_string
\* does not name
TypeCodes == {-1, kFloat32, kFloat64, kFloat16, kUint8, kInt32, 5}
\* -1 (unknown), the three storage types and one code stype_string does not name
StorageCodes == {-1, kDefaultStorage, kRowSparseStorage, kCSRStorage, 3}

-----------------------------------------------------------------------------
(* Predicates and string formatters, lines 92-142 *)

RECURSIVE Size(_)
Size(x) == IF Len(x) = 0 THEN 1 ELSE Head(x) * Size(Tail(x))

shape_is_none(x) == Len(x) = 0 \/ Size(x) = 0

type_is_none(x) == x = -1

shape_is_scalar(x) == Len(x) = 1 /\ Size(x) = 1

Digit(d) == CASE d = 0 -> "0" [] d = 1 -> "1" [] d = 2 -> "2" [] d = 3 -> "3"
              [] d = 4 -> "4" [] d = 5 -> "5" [] d = 6 -> "6" [] d = 7 -> "7"
              [] d = 8 -> "8" [] d = 9 -> "9"

\* operator<< of an unsigned integer: its decimal digits
RECURSIVE NatString(_)
NatString(n) == IF n < 10 THEN Digit(n) ELSE NatString(n \div 10) \o Digit(n % 10)

RECURSIVE JoinDims(_, _)
JoinDims(x, i) ==
  IF i > Len(x) THEN ""
  ELSE (IF i > 1 THEN "," ELSE "") \o NatString(x[i]) \o JoinDims(x, i + 1)

\* os << x for a TShape: a python-style tuple, "(2,3,4)", "(5,)" and "()"
shape_string(x) ==
  "(" \o JoinDims(x, 1) \o (IF Len(x) = 1 THEN "," ELSE "") \o ")"

type_string(x) ==
  CASE x = kFloat32 -> "float32"
    [] x = kFloat64 -> "float64"
    [] x = kFloat16 -> "float16"
    [] x = kUint8 -> "uint8"
    [] x = kInt32 -> "int32"
    [] OTHER -> "unknown"

stype_string(x) ==
  CASE x = kDefaultStorage -> "default"
    [] x = kCSRStorage -> "csr"
    [] x = kRowSparseStorage -> "row_sparse"
    [] OTHER -> "unknown"

-----------------------------------------------------------------------------
(* shape_assign and type_assign, lines 151-183.  Each returns the value the *)
(* function returns (ret) and the value it leaves in *y (y).                *)

\* the for loop of shape_assign from axis i on: an unknown axis of y takes
\* x's axis at once; the first conflict returns false where the loop stands
RECURSIVE shape_assign_loop(_, _, _)
shape_assign_loop(y, x, i) ==
  IF i > Len(y) THEN [ret |-> TRUE, y |-> y]
  ELSE IF y[i] = 0 THEN shape_assign_loop([y EXCEPT ![i] = x[i]], x, i + 1)
  ELSE IF y[i] # x[i] /\ x[i] # 0 THEN [ret |-> FALSE, y |-> y]
  ELSE shape_assign_loop(y, x, i + 1)

\* a shape_assign that copies x over y whenever the ranks agree and no axis
\* conflicts
shape_assign_overwrite(y, x) ==
  IF Len(y) = 0 THEN [ret |-> TRUE, y |-> x]
  ELSE IF Len(y) # Len(x) THEN [ret |-> Len(x) = 0, y |-> y]
  ELSE IF shape_assign_loop(y, x, 1).ret THEN [ret |-> TRUE, y |-> x]
  ELSE shape_assign_loop(y, x, 1)

\* a shape_assign that, when the target is unknown, adopts the candidate but
\* reports whether the adopted shape is fully known
shape_assign_strict(y, x) ==
  IF Len(y) = 0 THEN [ret |-> ~shape_is_none(x), y |-> x]
  ELSE IF Len(y) # Len(x) THEN [ret |-> Len(x) = 0, y |-> y]
  ELSE shape_assign_loop(y, x, 1)

shape_assign(y, x) ==
  IF Len(y) = 0 THEN [ret |-> TRUE, y |-> x]
  ELSE IF Len(y) # Len(x) THEN [ret |-> Len(x) = 0, y |-> y]
  ELSE shape_assign_loop(y, x, 1)

\* a type_assign without the conflict test: a known candidate always wins
type_assign_overwrite(y, x) ==
  IF y = -1 \/ x # -1 THEN [ret |-> TRUE, y |-> x]
  ELSE [ret |-> TRUE, y |-> y]

type_assign(y, x) ==
  IF y = -1 THEN [ret |-> TRUE, y |-> x]
  ELSE IF y # x /\ x # -1 THEN [ret |-> FALSE, y |-> y]
  ELSE [ret |-> TRUE, y |-> y]

-----------------------------------------------------------------------------
(* InferShapeError / InferTypeError, lines 71-90, and the messages of the   *)
(* three checked assignments, lines 192-249                                 *)

NoError == [type |-> "none", msg |-> "", index |-> -1]

InferShapeError(msg_, index) == [type |-> "InferShapeError", msg |-> msg_, index |-> index]

InferTypeError(msg_, index) == [type |-> "InferTypeError", msg |-> msg_, index |-> index]

NoCall == [fn |-> "none", index |-> -1, x |-> -1]

\* the os << ...; throw of SHAPE_ASSIGN_CHECK: slot is (shape_array)[index]
\* as shape_assign left it
ShapeCheckError(slot, index, shape) ==
  InferShapeError("Shape inconsistent, Provided=" \o shape_string(slot) \o ","
                  \o " inferred shape=" \o shape_string(shape), index)

TypeCheckError(slot, index, type) ==
  InferTypeError("Type inconsistent, Provided=" \o type_string(slot) \o ","
                 \o " inferred type=" \o type_string(type), index)

StorageTypeCheckError(slot, index, type) ==
  InferTypeError("Storage type inconsistent, Provided=" \o stype_string(slot) \o ","
                 \o " inferred storage type=" \o stype_string(type), index)

-----------------------------------------------------------------------------
(* Values the variables of the other specifications keep while one runs *)

UnifyIdle ==
  /\ pass = "none"
  /\ shape_array = <<>> /\ type_array = <<>> /\ stype_array = <<>>
  /\ last = NoCall /\ ret = TRUE /\ err = NoError

AlgebraIdle ==
  /\ kind = "none" /\ T = -1 /\ X = -1 /\ Y = -1
  /\ runXY = <<>> /\ runYX = <<>>

GraphIdle ==
  /\ fwd = <<>> /\ call = [fn |-> "none"] /\ created = <<>> /\ result = <<>> /\ raised = ""

FallbackIdle ==
  /\ inputs = <<>> /\ outputs = <<>> /\ mutate_idx = <<>> /\ pc = "none"
  /\ in_blobs = <<>> /\ out_blobs = <<>> /\ in_temp_idx_map = {}
  /\ pre_temp_src = <<>> /\ pre_temp_dst = <<>>
  /\ post_temp_src = <<>> /\ post_temp_dst = <<>> /\ trace = <<>>

-----------------------------------------------------------------------------
(* Spec: the slots of one inference pass.  A pass (shape, element type or   *)
(* storage type) owns the attribute array of its kind, one slot per         *)
(* endpoint, starting at any value; the arrays of the other kinds are not   *)
(* touched by it.  Each action is one call; last, ret and err are its       *)
(* arguments, shape_assign's / type_assign's return value and the exception *)
(* it left.                                                                 *)

Passes == {"shape", "type", "storage"}

AllUnknownShapes == [i \in Indices |-> <<>>]
AllUnknownTypes == [i \in Indices |-> -1]

Init ==
  /\ pass \in Passes
  /\ shape_array \in (IF pass = "shape" THEN [Indices -> Shapes] ELSE {AllUnknownShapes})
  /\ type_array \in (IF pass = "type" THEN [Indices -> TypeCodes] ELSE {AllUnknownTypes})
  /\ stype_array \in (IF pass = "storage" THEN [Indices -> StorageCodes] ELSE {AllUnknownTypes})
  /\ last = NoCall /\ ret = TRUE /\ err = NoError
  /\ AlgebraIdle /\ GraphIdle /\ FallbackIdle

\* shape_assign(&shape_array[index], shape) called directly
ShapeAssign(index, shape) ==
  LET r == shape_assign(shape_array[index], shape) IN
  /\ pass = "shape"
  /\ shape_array' = [shape_array EXCEPT ![index] = r.y]
  /\ ret' = r.ret
  /\ err' = NoError
  /\ last' = [fn |-> "shape_assign", index |-> index, x |-> shape]
  /\ UNCHANGED <<pass, type_array, stype_array>>

\* type_assign(&type_array[index], type) called directly on an element type
TypeAssign(index, type) ==
  LET r == type_assign(type_array[index], type) IN
  /\ pass = "type"
  /\ type_array' = [type_array EXCEPT ![index] = r.y]
  /\ ret' = r.ret
  /\ err' = NoError
  /\ last' = [fn |-> "type_assign", index |-> index, x |-> type]
  /\ UNCHANGED <<pass, shape_array, stype_array>>

\* type_assign(&stype_array[index], type) called directly on a storage type
StorageTypeAssign(index, type) ==
  LET r == type_assign(stype_array[index], type) IN
  /\ pass = "storage"
  /\ stype_array' = [stype_array EXCEPT ![index] = r.y]
  /\ ret' = r.ret
  /\ err' = NoError
  /\ last' = [fn |-> "storage_type_assign", index |-> index, x |-> type]
  /\ UNCHANGED <<pass, shape_array, type_array>>

\* the macro: the message reads (shape_array)[index] after shape_assign ran
SHAPE_ASSIGN_CHECK(index, shape) ==
  LET r == shape_assign(shape_array[index], shape) IN
  /\ pass = "shape"
  /\ shape_array' = [shape_array EXCEPT ![index] = r.y]
  /\ ret' = r.ret
  /\ err' = IF ~r.ret THEN ShapeCheckError(r.y, index, shape) ELSE NoError
  /\ last' = [fn |-> "SHAPE_ASSIGN_CHECK", index |-> index, x |-> shape]
  /\ UNCHANGED <<pass, type_array, stype_array>>

TYPE_ASSIGN_CHECK(index, type) ==
  LET r == type_assign(type_array[index], type) IN
  /\ pass = "type"
  /\ type_array' = [type_array EXCEPT ![index] = r.y]
  /\ ret' = r.ret
  /\ err' = IF ~r.ret THEN TypeCheckError(r.y, index, type) ELSE NoError
  /\ last' = [fn |-> "TYPE_ASSIGN_CHECK", index |-> index, x |-> type]
  /\ UNCHANGED <<pass, shape_array, stype_array>>

STORAGE_TYPE_ASSIGN_CHECK(index, type) ==
  LET r == type_assign(stype_array[index], type) IN
  /\ pass = "storage"
  /\ stype_array' = [stype_array EXCEPT ![index] = r.y]
  /\ ret' = r.ret
  /\ err' = IF ~r.ret THEN StorageTypeCheckError(r.y, index, type) ELSE NoError
  /\ last' = [fn |-> "STORAGE_TYPE_ASSIGN_CHECK", index |-> index, x |-> type]
  /\ UNCHANGED <<pass, shape_array, type_array>>

ShapeAssignCall == \E index \in Indices, shape \in Shapes :
  ShapeAssign(index, shape) /\ UNCHANGED <<algebraVars, graphVars, fallbackVars>>

TypeAssignCall == \E index \in Indices, type \in TypeCodes :
  TypeAssign(index, type) /\ UNCHANGED <<algebraVars, graphVars, fallbackVars>>

StorageTypeAssignCall == \E index \in Indices, type \in StorageCodes :
  StorageTypeAssign(index, type) /\ UNCHANGED <<algebraVars, graphVars, fallbackVars>>

ShapeAssignCheckCall == \E index \in Indices, shape \in Shapes :
  SHAPE_ASSIGN_CHECK(index, shape) /\ UNCHANGED <<algebraVars, graphVars, fallbackVars>>

TypeAssignCheckCall == \E index \in Indices, type \in TypeCodes :
  TYPE_ASSIGN_CHECK(index, type) /\ UNCHANGED <<algebraVars, graphVars, fallbackVars>>

StorageTypeAssignCheckCall == \E index \in Indices, type \in StorageCodes :
  STORAGE_TYPE_ASSIGN_CHECK(index, type) /\ UNCHANGED <<algebraVars, graphVars, fallbackVars>>

Next ==
  \/ ShapeAssignCall
  \/ TypeAssignCall
  \/ StorageTypeAssignCall
  \/ ShapeAssignCheckCall
  \/ TypeAssignCheckCall
  \/ StorageTypeAssignCheckCall

Spec == Init /\ [][Next]_vars

-----------------------------------------------------------------------------
(* SpecUnify: shape_assign and type_assign as functions.  A slot starting   *)
(* at T is unified with the candidates X then Y (runXY) and, from the same  *)
(* T, with Y then X (runYX); each run keeps what every call returned and    *)
(* left in the slot.                                                        *)

Assign(k, y, x) == IF k = "shape" THEN shape_assign(y, x) ELSE type_assign(y, x)

\* the slot a run's next call sees
Cur(run) == IF run = <<>> THEN T ELSE run[Len(run)].y

\* the values a slot of kind k and its candidates range over
Values(k) ==
  CASE k = "shape" -> Shapes
    [] k = "type" -> TypeCodes
    [] k = "storage" -> StorageCodes

InitUnify ==
  /\ kind \in {"shape", "type", "storage"}
  /\ T \in Values(kind)
  /\ X \in Values(kind)
  /\ Y \in Values(kind)
  /\ runXY = <<>> /\ runYX = <<>>
  /\ UnifyIdle /\ GraphIdle /\ FallbackIdle

ApplyXY ==
  /\ Len(runXY) < 2
  /\ runXY' = Append(runXY, Assign(kind, Cur(runXY), IF Len(runXY) = 0 THEN X ELSE Y))
  /\ UNCHANGED <<kind, T, X, Y, runYX, unifyVars, graphVars, fallbackVars>>

ApplyYX ==
  /\ Len(runYX) < 2
  /\ runYX' = Append(runYX, Assign(kind, Cur(runYX), IF Len(runYX) = 0 THEN Y ELSE X))
  /\ UNCHANGED <<kind, T, X, Y, runXY, unifyVars, graphVars, fallbackVars>>

NextUnify == ApplyXY \/ ApplyYX

SpecUnify == InitUnify /\ [][NextUnify]_vars

-----------------------------------------------------------------------------
(* Claims about the attribute slots (Spec) *)

\* the message a failed checked assignment would carry if it rendered the
\* value the slot held before the call
MessageOfPriorValue(fn, index, x) ==
  CASE fn = "SHAPE_ASSIGN_CHECK" -> ShapeCheckError(shape_array[index], index, x).msg
    [] fn = "TYPE_ASSIGN_CHECK" -> TypeCheckError(type_array[index], index, x).msg
    [] fn = "STORAGE_TYPE_ASSIGN_CHECK" -> StorageTypeCheckError(stype_array[index], index, x).msg

\* C3: a failed checked assignment raises an error whose index is the given
\* index and whose message renders, after "Provided=", the value the slot held
\* before the call and, after "inferred ...=", the inferred value.
C3_ErrorReportsPriorValue ==
  [][(~ret' /\ last'.fn \in {"SHAPE_ASSIGN_CHECK", "TYPE_ASSIGN_CHECK",
                             "STORAGE_TYPE_ASSIGN_CHECK"})
       => /\ err'.type # "none"
          /\ err'.index = last'.index
          /\ err'.msg = MessageOfPriorValue(last'.fn, last'.index, last'.x)]_vars

-----------------------------------------------------------------------------
(* SpecGraph: node construction, lines 271-381.                             *)
(*                                                                          *)
(* A node pointer is a name: "null" is the null pointer, "n" the forward    *)
(* node, "p1", "p2", ... the nodes a call creates, in creation order, and   *)
(* the others are nodes of the surrounding graph.  A NodeEntry is           *)
(* [node, index, version].  An optional pointer argument is <<>> (nullptr)  *)
(* or <<v>>.  A dictionary is the sequence of its key/value pairs in the    *)
(* order they were inserted; the order an iteration over the unordered_map  *)
(* visits them is not fixed by the language and is an input of the calls.   *)

NodeEntry(node, index) == [node |-> node, index |-> index, version |-> 0]

\* inputs a forward node may have
InputEntries == {NodeEntry("data", 0), NodeEntry("weight", 0)}

\* output gradients: a null entry, a _zeros node, a zeros_like node, a node
\* of another operator
GradEntries == {NodeEntry("null", 0), NodeEntry("zeros", 0),
                NodeEntry("zl", 0), NodeEntry("ones", 0)}

\* operators a gradient function may request
BackwardOps == {"_backward_Activation", "_backward_add"}

DictPairs == {<<"act_type", "relu">>, <<"axis", "1">>}

\* dictionaries: sequences of pairs with distinct keys
Dicts == {d \in SeqsUpTo(DictPairs, Cardinality(DictPairs)) :
            \A i, j \in 1..Len(d) : i # j => d[i][1] # d[j][1]}

\* the orders an iteration may visit n entries in
Orders(n) == {o \in [1..n -> 1..n] : \A i, j \in 1..n : i # j => o[i] # o[j]}

\* node->op() of the nodes of the surrounding graph; "" is no operator (a variable)
NodeOp(node) ==
  CASE node = "zeros" -> "_zeros"
    [] node = "zl" -> "zeros_like"
    [] node = "ones" -> "ones_like"
    [] OTHER -> ""

\* the registry: whether Op::Get(op_name) has an attr_parser (line 284)
attr_parser(op_name) == op_name \in {"_backward_Activation", "_zeros"}

\* the registry: p->num_outputs() of a node of operator op_name (lines 307, 357)
num_outputs(op_name) == IF op_name = "_backward_add" THEN 2 ELSE 1

\* e.what() of the dmlc::ParamError that param.Init throws
ParamErrorText == "Invalid Parameter format"

RECURSIVE DictText(_, _, _)
\* the for loop of ParamParser over attrs->dict, visiting entry order[i] i-th
DictText(dict, order, i) ==
  IF i > Len(dict) THEN ""
  ELSE ", " \o dict[order[i]][1] \o "=\"" \o dict[order[i]][2] \o "\""
       \o DictText(dict, order, i + 1)

\* a ParamParser that leaves the node's name out of the message
ParamParserNoName(attrs, init_ok, order) ==
  IF init_ok THEN [node |-> [attrs EXCEPT !.parsed = TRUE], raised |-> ""]
  ELSE [node |-> attrs,
        raised |-> ParamErrorText \o ", in operator " \o attrs.op \o "("
                   \o DictText(attrs.dict, order, 1) \o ")"]

\* ParamParser<PType>(attrs): init_ok is whether param.Init(attrs->dict)
\* returns; order is the order the loop visits attrs->dict in
ParamParser(attrs, init_ok, order) ==
  IF init_ok THEN [node |-> [attrs EXCEPT !.parsed = TRUE], raised |-> ""]
  ELSE [node |-> attrs,
        raised |-> ParamErrorText \o ", in operator " \o attrs.op \o "("
                   \o "name=\"" \o attrs.name \o "\""
                   \o DictText(attrs.dict, order, 1) \o ")"]

\* MakeNode(op_name, name, inputs, dict, fwd_node), the pointer overload
MakeNode(op_name, name, inputsp, dictp, fwd_nodep, init_ok, order) ==
  LET p == [op |-> op_name,
            name |-> name,
            dict |-> IF dictp # <<>> THEN dictp[1] ELSE <<>>,
            inputs |-> IF inputsp # <<>> THEN inputsp[1] ELSE <<>>,
            control_deps |-> IF fwd_nodep # <<>> THEN <<fwd_nodep[1]>> ELSE <<>>,
            parsed |-> FALSE]
  IN  IF attr_parser(op_name) THEN ParamParser(p, init_ok, order)
      ELSE [node |-> p, raised |-> ""]

\* the entries {p, 0, 0}, ..., {p, count-1, 0}
RECURSIVE OutputEntries(_, _, _)
OutputEntries(node, i, count) ==
  IF i >= count THEN <<>>
  ELSE <<NodeEntry(node, i)>> \o OutputEntries(node, i + 1, count)

\* the name of the k-th node a call creates
Created(k) == "p" \o NatString(k)

\* A call's outcome: the nodes it created and that outlive it, what it
\* returned, and the message of the ParamError it raised ("" when it returned)
Outcome(nodes, value, msg) == [created |-> nodes, result |-> value, raised |-> msg]

MakeGradNode(op_name, n, ins, dict, init_ok, order) ==
  LET made == MakeNode(op_name, n.name \o "_backward", <<ins>>, <<dict>>, <<"n">>,
                       init_ok, order)
  IN  IF made.raised # "" THEN Outcome(<<>>, <<>>, made.raised)
      ELSE Outcome(<<made.node>>,
                   OutputEntries(Created(1), 0, num_outputs(made.node.op)), "")

RECURSIVE MakeZeroGradNodesFrom(_, _, _)
\* the loop of MakeZeroGradNodes from input i (0-based) on, acc its outcome so far
MakeZeroGradNodesFrom(n, i, acc) ==
  IF i >= Len(n.inputs) THEN acc
  ELSE LET name == IF 1 = Len(n.inputs) THEN n.name \o "_backward"
                   ELSE n.name \o "_in" \o NatString(i) \o "_backward"
           made == MakeNode("zeros_like", name, <<<<n.inputs[i + 1]>>>>, <<>>, <<"n">>,
                            TRUE, <<>>)
       IN  MakeZeroGradNodesFrom(n, i + 1,
             Outcome(Append(acc.created, made.node),
                     Append(acc.result, NodeEntry(Created(Len(acc.created) + 1), 0)),
                     ""))

MakeZeroGradNodes(n, ograds) == MakeZeroGradNodesFrom(n, 0, Outcome(<<>>, <<>>, ""))

RECURSIVE CheckGradAllZeroFrom(_, _)
\* the loop of CheckGradAllZero from entry i (1-based) on
CheckGradAllZeroFrom(ograds, i) ==
  IF i > Len(ograds) THEN TRUE
  ELSE IF ograds[i].node = "null" THEN FALSE
  ELSE IF NodeOp(ograds[i].node) # "_zeros" /\ NodeOp(ograds[i].node) # "zeros_like"
       THEN FALSE
  ELSE CheckGradAllZeroFrom(ograds, i + 1)

\* a CheckGradAllZero without the test for the empty list
CheckGradAllZeroNoEmptyTest(ograds) == CheckGradAllZeroFrom(ograds, 1)

CheckGradAllZero(ograds) ==
  IF Len(ograds) = 0 THEN FALSE ELSE CheckGradAllZeroFrom(ograds, 1)

\* a MakeNonlossGradNode that appends the forward inputs before the gradients
MakeNonlossGradNodeInputsFirst(op_name, n, ograds, ins, dict, init_ok, order) ==
  IF CheckGradAllZero(ograds) THEN MakeZeroGradNodes(n, ograds)
  ELSE LET made == MakeNode(op_name, n.name \o "_backward", <<>>, <<dict>>, <<"n">>,
                            init_ok, order)
       IN  IF made.raised # "" THEN Outcome(<<>>, <<>>, made.raised)
           ELSE Outcome(<<[made.node EXCEPT !.inputs = (made.node.inputs \o ins) \o ograds]>>,
                        OutputEntries(Created(1), 0, num_outputs(made.node.op)), "")

\* a MakeNonlossGradNode that builds the backward node whatever the gradients
MakeNonlossGradNodeNoShortcut(op_name, n, ograds, ins, dict, init_ok, order) ==
  LET made == MakeNode(op_name, n.name \o "_backward", <<>>, <<dict>>, <<"n">>,
                       init_ok, order)
  IN  IF made.raised # "" THEN Outcome(<<>>, <<>>, made.raised)
      ELSE Outcome(<<[made.node EXCEPT !.inputs = (made.node.inputs \o ograds) \o ins]>>,
                   OutputEntries(Created(1), 0, num_outputs(made.node.op)), "")

MakeNonlossGradNode(op_name, n, ograds, ins, dict, init_ok, order) ==
  IF CheckGradAllZero(ograds) THEN MakeZeroGradNodes(n, ograds)
  ELSE LET made == MakeNode(op_name, n.name \o "_backward", <<>>, <<dict>>, <<"n">>,
                            init_ok, order)
       IN  IF made.raised # "" THEN Outcome(<<>>, <<>>, made.raised)
           ELSE Outcome(<<[made.node EXCEPT !.inputs = (made.node.inputs \o ograds) \o ins]>>,
                        OutputEntries(Created(1), 0, num_outputs(made.node.op)), "")

\* The forward node and the arguments of the call are drawn at the start; one
\* of the functions is then called on them.
InitGraph ==
  /\ fwd \in [op : {"Activation"}, name : {"act1"},
              inputs : SeqsUpTo(InputEntries, MaxList),
              dict : {<<>>}, control_deps : {<<>>}, parsed : {FALSE}]
  /\ call \in [fn : {""}, op_name : BackwardOps,
               ograds : SeqsUpTo(GradEntries, MaxList),
               inputs : {<<>>, fwd.inputs, <<NodeEntry("n", 0)>>},
               dict : Dicts]
  /\ created = <<>> /\ result = <<>> /\ raised = ""
  /\ UnifyIdle /\ AlgebraIdle /\ FallbackIdle

Returns(fn, out) ==
  /\ call.fn = ""
  /\ call' = [call EXCEPT !.fn = fn]
  /\ created' = out.created
  /\ result' = out.result
  /\ raised' = out.raised
  /\ UNCHANGED <<fwd, unifyVars, algebraVars, fallbackVars>>

MakeGradNodeCall ==
  \E init_ok \in BOOLEAN, order \in Orders(Len(call.dict)) :
    Returns("MakeGradNode",
            MakeGradNode(call.op_name, fwd, call.inputs, call.dict, init_ok, order))

MakeZeroGradNodesCall ==
  Returns("MakeZeroGradNodes", MakeZeroGradNodes(fwd, call.ograds))

CheckGradAllZeroCall ==
  Returns("CheckGradAllZero", Outcome(<<>>, CheckGradAllZero(call.ograds), ""))

MakeNonlossGradNodeCall ==
  \E init_ok \in BOOLEAN, order \in Orders(Len(call.dict)) :
    Returns("MakeNonlossGradNode",
            MakeNonlossGradNode(call.op_name, fwd, call.ograds, call.inputs, call.dict,
                                init_ok, order))

\* ParamParser on the attributes of a node of the requested operator
ParamParserCall ==
  \E init_ok \in BOOLEAN, order \in Orders(Len(call.dict)) :
    LET attrs == [op |-> call.op_name, name |-> fwd.name \o "_backward",
                  dict |-> call.dict, inputs |-> <<>>, control_deps |-> <<>>,
                  parsed |-> FALSE]
        out == ParamParser(attrs, init_ok, order)
    IN  Returns("ParamParser", Outcome(<<out.node>>, <<>>, out.raised))

NextGraph ==
  \/ MakeGradNodeCall
  \/ MakeZeroGradNodesCall
  \/ CheckGradAllZeroCall
  \/ MakeNonlossGradNodeCall
  \/ ParamParserCall

SpecGraph == InitGraph /\ [][NextGraph]_vars

-----------------------------------------------------------------------------
(* SpecFallback: FCompExFallback, lines 393-419.                            *)
(*                                                                          *)
(* inputs and outputs are the storage types of the NDArrays passed in.  An  *)
(* NDArray object is named by the list it came in and its 0-based index;    *)
(* the dense temporary staged for it carries the same name, marked temp.    *)
(* pc is the statement the call stands at; trace lists, in order, the       *)
(* conversions performed and the compute step.                              *)

StorageTypes == {kDefaultStorage, kRowSparseStorage, kCSRStorage}

Arg(list, i) == [list |-> list, idx |-> i, temp |-> FALSE]

Temp(list, i) == [list |-> list, idx |-> i, temp |-> TRUE]

RECURSIVE SetupDefaultBlobs(_, _, _, _)
\* common::SetupDefaultBlobs(src, blobs, temp_src, temp_dst, idx_map) from
\* src[i] on: a source that is not dense is staged into a fresh dense
\* temporary, whose blob is used; a dense source gives its own blob
SetupDefaultBlobs(list, src, i, acc) ==
  IF i >= Len(src) THEN acc
  ELSE IF src[i + 1] # kDefaultStorage
  THEN SetupDefaultBlobs(list, src, i + 1,
         [blobs |-> Append(acc.blobs, Temp(list, i)),
          temp_src |-> Append(acc.temp_src, Arg(list, i)),
          temp_dst |-> Append(acc.temp_dst, Temp(list, i)),
          idx_map |-> acc.idx_map \cup {<<i, Len(acc.temp_dst)>>}])
  ELSE SetupDefaultBlobs(list, src, i + 1,
         [acc EXCEPT !.blobs = Append(acc.blobs, Arg(list, i))])

NoBlobs == [blobs |-> <<>>, temp_src |-> <<>>, temp_dst |-> <<>>, idx_map |-> {}]

\* common::CastNonDefaultStorage(src, dst, ...): dst[i] receives src[i], for
\* each i in order
CastNonDefaultStorage(src, dst) ==
  [i \in 1..Len(src) |-> [op |-> "cast", src |-> src[i], dst |-> dst[i]]]

RECURSIVE MutatedCopyBackToTemp(_, _, _, _, _)
\* a loop over mutate_idx that copies back into the temporary, not the input
MutatedCopyBackToTemp(mutate, k, map, temp_dst, acc) ==
  IF k > Len(mutate) THEN acc
  ELSE IF \E m \in map : m[1] = mutate[k]
  THEN LET m == CHOOSE m \in map : m[1] = mutate[k]
       IN  MutatedCopyBackToTemp(mutate, k + 1, map, temp_dst,
             [src |-> Append(acc.src, temp_dst[m[2] + 1]),
              dst |-> Append(acc.dst, temp_dst[m[2] + 1])])
  ELSE MutatedCopyBackToTemp(mutate, k + 1, map, temp_dst, acc)

RECURSIVE MutatedCopyBack(_, _, _, _, _)
\* the loop over mutate_idx, lines 409-415, from its k-th element (1-based)
\* on: map is in_temp_idx_map, temp_dst is pre_temp_dst and acc is
\* post_temp_src and post_temp_dst so far
MutatedCopyBack(mutate, k, map, temp_dst, acc) ==
  IF k > Len(mutate) THEN acc
  ELSE IF \E m \in map : m[1] = mutate[k]
  THEN LET m == CHOOSE m \in map : m[1] = mutate[k]
       IN  MutatedCopyBack(mutate, k + 1, map, temp_dst,
             [src |-> Append(acc.src, temp_dst[m[2] + 1]),
              dst |-> Append(acc.dst, Arg("inputs", mutate[k]))])
  ELSE MutatedCopyBack(mutate, k + 1, map, temp_dst, acc)

InitFallback ==
  /\ inputs \in SeqsUpTo(StorageTypes, MaxArgs)
  /\ outputs \in SeqsUpTo(StorageTypes, MaxArgs)
  /\ mutate_idx \in SeqsUpTo(0..(MaxArgs - 1), MaxArgs)
  /\ pc = "setup"
  /\ in_blobs = <<>> /\ out_blobs = <<>> /\ in_temp_idx_map = {}
  /\ pre_temp_src = <<>> /\ pre_temp_dst = <<>>
  /\ post_temp_src = <<>> /\ post_temp_dst = <<>>
  /\ trace = <<>>
  /\ UnifyIdle /\ AlgebraIdle /\ GraphIdle

\* lines 403-415: the two SetupDefaultBlobs calls and the loop over mutate_idx.
\* The call for the outputs hands post_temp_dst as temp_src and post_temp_src
\* as temp_dst.
Setup ==
  LET ins == SetupDefaultBlobs("inputs", inputs, 0, NoBlobs)
      outs == SetupDefaultBlobs("outputs", outputs, 0, NoBlobs)
      post == MutatedCopyBack(mutate_idx, 1, ins.idx_map, ins.temp_dst,
                              [src |-> outs.temp_dst, dst |-> outs.temp_src])
  IN  /\ pc = "setup"
      /\ in_blobs' = ins.blobs
      /\ pre_temp_src' = ins.temp_src
      /\ pre_temp_dst' = ins.temp_dst
      /\ in_temp_idx_map' = ins.idx_map
      /\ out_blobs' = outs.blobs
      /\ post_temp_src' = post.src
      /\ post_temp_dst' = post.dst
      /\ pc' = "cast_pre"
      /\ UNCHANGED <<inputs, outputs, mutate_idx, trace>>
      /\ UNCHANGED <<unifyVars, algebraVars, graphVars>>

\* line 416
CastPre ==
  /\ pc = "cast_pre"
  /\ trace' = trace \o CastNonDefaultStorage(pre_temp_src, pre_temp_dst)
  /\ pc' = "fcompute"
  /\ UNCHANGED <<inputs, outputs, mutate_idx, in_blobs, out_blobs, in_temp_idx_map,
                 pre_temp_src, pre_temp_dst, post_temp_src, post_temp_dst>>
  /\ UNCHANGED <<unifyVars, algebraVars, graphVars>>

\* line 417: fcompute runs on the blobs and returns or throws
FCompute ==
  /\ pc = "fcompute"
  /\ trace' = Append(trace, [op |-> "fcompute", src |-> in_blobs, dst |-> out_blobs])
  /\ pc' \in {"cast_post", "raised"}
  /\ UNCHANGED <<inputs, outputs, mutate_idx, in_blobs, out_blobs, in_temp_idx_map,
                 pre_temp_src, pre_temp_dst, post_temp_src, post_temp_dst>>
  /\ UNCHANGED <<unifyVars, algebraVars, graphVars>>

\* line 418
CastPost ==
  /\ pc = "cast_post"
  /\ trace' = trace \o CastNonDefaultStorage(post_temp_src, post_temp_dst)
  /\ pc' = "done"
  /\ UNCHANGED <<inputs, outputs, mutate_idx, in_blobs, out_blobs, in_temp_idx_map,
                 pre_temp_src, pre_temp_dst, post_temp_src, post_temp_dst>>
  /\ UNCHANGED <<unifyVars, algebraVars, graphVars>>

NextFallback == Setup \/ CastPre \/ FCompute \/ CastPost

SpecFallback == InitFallback /\ [][NextFallback]_vars

-----------------------------------------------------------------------------
(* Claims about shape_assign and type_assign as functions (SpecUnify) *)

\* equal non-zero rank and some axis known on both sides with different sizes
KnownConflict(t, x) ==
  /\ Len(t) = Len(x)
  /\ Len(t) # 0
  /\ \E k \in 1..Len(t) : t[k] # 0 /\ x[k] # 0 /\ t[k] # x[k]

\* what one call may do to a slot of kind k holding s, leaving t
Monotone(k, s, t) ==
  IF k = "shape"
  THEN /\ Len(s) # 0 => Len(t) = Len(s)
       /\ \A i \in 1..Len(s) : s[i] # 0 => (Len(t) >= i /\ t[i] = s[i])
  ELSE s # -1 => t = s

\* C1: over any sequence of shape_assign / type_assign calls from any slot
\* value, failed calls included, a non-zero rank never changes, a non-zero
\* axis never changes and a type or storage type other than -1 never changes.
C1_RefinementMonotonic ==
  [][/\ Monotone(kind, Cur(runXY), Cur(runXY)')
     /\ Monotone(kind, Cur(runYX), Cur(runYX)')]_vars

\* two calls refined a shape slot, and the second one failed
C1_Witness ==
  /\ kind = "shape" /\ Len(runXY) = 2
  /\ runXY[1].ret /\ runXY[1].y # T
  /\ ~runXY[2].ret /\ runXY[2].y # runXY[1].y

\* C2: shape_assign(T, X) on shapes of equal non-zero rank that differ at an
\* axis known on both sides returns false and leaves every axis of T as it
\* was, the unknown ones included.
C2_ConflictLeavesTarget ==
  (kind = "shape" /\ Len(runXY) >= 1 /\ KnownConflict(T, X))
    => (~runXY[1].ret /\ runXY[1].y = T)

\* C4: applying shape_assign with X a second time to the result of
\* shape_assign(T, X) returns the same flag and leaves the same target.
C4_ShapeAssignIdempotent ==
  (kind = "shape" /\ X = Y /\ Len(runXY) = 2) => runXY[2] = runXY[1]

\* the same candidate was applied twice and the first application failed
\* after filling an axis
C4_Witness ==
  /\ kind = "shape" /\ X = Y /\ Len(runXY) = 2
  /\ ~runXY[1].ret
  /\ runXY[1].y # T

BothTrue(run) == run[1].ret /\ run[2].ret

\* C10: X then Y returns true at both calls iff Y then X does, and then both
\* orders leave the same slot.
C10_OrderIndependent ==
  (Len(runXY) = 2 /\ Len(runYX) = 2)
    => /\ BothTrue(runXY) <=> BothTrue(runYX)
       /\ BothTrue(runXY) => runXY[2].y = runYX[2].y

\* both orders ran and succeeded, and the final shape is none of T, X and Y:
\* each candidate filled an axis the other left unknown
C10_Witness ==
  /\ kind = "shape"
  /\ Len(runXY) = 2 /\ Len(runYX) = 2
  /\ BothTrue(runXY) /\ BothTrue(runYX)
  /\ runXY[2].y # T /\ runXY[2].y # X /\ runXY[2].y # Y

-----------------------------------------------------------------------------
(* Claims about node construction (SpecGraph) *)

\* a non-empty list whose every entry has a node of operator _zeros or zeros_like
AllZero(ograds) ==
  /\ ograds # <<>>
  /\ \A i \in 1..Len(ograds) :
       /\ ograds[i].node # "null"
       /\ NodeOp(ograds[i].node) \in {"_zeros", "zeros_like"}

\* C5: with gradients that are not all zero (the empty list included),
\* MakeNonlossGradNode builds exactly one node, named <forwardName>_backward
\* and control-dependent on the forward node, whose inputs are ograds followed
\* by inputs, and returns num_outputs edges to it, indexed 0..num_outputs-1.
C5_NonlossGradNodeWiring ==
  (call.fn = "MakeNonlossGradNode" /\ ~AllZero(call.ograds) /\ raised = "")
    => /\ Len(created) = 1
       /\ created[1].op = call.op_name
       /\ created[1].name = fwd.name \o "_backward"
       /\ created[1].control_deps = <<"n">>
       /\ created[1].inputs = call.ograds \o call.inputs
       /\ Len(result) = num_outputs(call.op_name)
       /\ \A i \in 1..Len(result) : result[i] = NodeEntry("p1", i - 1)

\* a backward node with two outputs was built from a gradient list that mixes
\* a zero and a non-zero gradient, and from forward inputs
C5_Witness ==
  /\ call.fn = "MakeNonlossGradNode" /\ raised = ""
  /\ \E i \in 1..Len(call.ograds) : AllZero(<<call.ograds[i]>>)
  /\ ~AllZero(call.ograds)
  /\ call.inputs # <<>>
  /\ Len(created) = 1 /\ Len(result) = 2

\* C6: with all-zero gradients MakeNonlossGradNode returns what
\* MakeZeroGradNodes returns: one edge, of output index 0, per forward input,
\* in order, each to a fresh zeros_like node fed by that input,
\* control-dependent on the forward node and named <forwardName>_backward for
\* a single input and <forwardName>_in<i>_backward otherwise; no node of the
\* requested backward operator is built.
C6_AllZeroShortCircuit ==
  (call.fn = "MakeNonlossGradNode" /\ AllZero(call.ograds))
    => /\ raised = ""
       /\ result = MakeZeroGradNodes(fwd, call.ograds).result
       /\ Len(result) = Len(fwd.inputs)
       /\ Len(created) = Len(fwd.inputs)
       /\ \A i \in 1..Len(fwd.inputs) :
            /\ result[i] = NodeEntry(Created(i), 0)
            /\ created[i].op = "zeros_like"
            /\ created[i].inputs = <<fwd.inputs[i]>>
            /\ created[i].control_deps = <<"n">>
            /\ created[i].name =
                 IF Len(fwd.inputs) = 1 THEN fwd.name \o "_backward"
                 ELSE fwd.name \o "_in" \o NatString(i - 1) \o "_backward"
       /\ \A k \in 1..Len(created) : created[k].op # call.op_name

\* the short circuit ran for a forward node with several inputs
C6_Witness ==
  /\ call.fn = "MakeNonlossGradNode"
  /\ AllZero(call.ograds)
  /\ Len(fwd.inputs) >= 2
  /\ Len(created) = Len(fwd.inputs)

\* C7: CheckGradAllZero(ograds) is true iff ograds is non-empty and every
\* entry has a non-null node of operator _zeros or zeros_like.
C7_CheckGradAllZero ==
  call.fn = "CheckGradAllZero" => result = AllZero(call.ograds)

\* a zero gradient followed by a null entry was judged not all zero
C7_Witness ==
  /\ call.fn = "CheckGradAllZero"
  /\ Len(call.ograds) = 2
  /\ AllZero(<<call.ograds[1]>>)
  /\ call.ograds[2].node = "null"
  /\ result = FALSE

RECURSIVE PairsText(_)
\* , key="value" for each pair of a sequence, in its order
PairsText(pairs) ==
  IF pairs = <<>> THEN ""
  ELSE ", " \o Head(pairs)[1] \o "=\"" \o Head(pairs)[2] \o "\"" \o PairsText(Tail(pairs))

\* the original text, then the operator, the node's name and the pairs
Decorated(op, name, pairs) ==
  ParamErrorText \o ", in operator " \o op \o "(name=\"" \o name \o "\""
    \o PairsText(pairs) \o ")"

\* a failed parse leaves no parsed node behind
ParsedUnset == \A k \in 1..Len(created) : ~created[k].parsed

\* C9 as claimed: the message of the re-raised parameter error lists the
\* pairs of the dictionary in the order they were inserted.
C9_PairsInInsertionOrder ==
  raised # ""
    => /\ ParsedUnset
       /\ raised = Decorated(call.op_name, fwd.name \o "_backward", call.dict)

\* C9: when param.Init fails, a parameter error is re-raised (parsed left
\* unset) whose message is the original text followed by the operator name,
\* the node's name and every pair of the dictionary, each exactly once,
\* comma-separated, in the order the iteration over the unordered_map visits
\* them, which may be any order.
C9_PairsInSomeOrder ==
  raised # ""
    => /\ ParsedUnset
       /\ \E order \in Orders(Len(call.dict)) :
            raised = Decorated(call.op_name, fwd.name \o "_backward",
                               [i \in 1..Len(call.dict) |-> call.dict[order[i]]])

\* a parse of a two-entry dictionary failed and the message lists the pairs
\* in another order than they were inserted
C9_Witness ==
  /\ raised # ""
  /\ Len(call.dict) = 2
  /\ raised # Decorated(call.op_name, fwd.name \o "_backward", call.dict)

-----------------------------------------------------------------------------
(* Claims about the storage fallback (SpecFallback) *)

Cast(from, to) == [op |-> "cast", src |-> from, dst |-> to]

Staged(list, i) == i < Len(list) /\ list[i + 1] # kDefaultStorage

RECURSIVE PreConversions(_)
\* input i (0-based) to its temporary, for each input from i on that is not dense
PreConversions(i) ==
  IF i >= Len(inputs) THEN <<>>
  ELSE (IF Staged(inputs, i) THEN <<Cast(Arg("inputs", i), Temp("inputs", i))>> ELSE <<>>)
       \o PreConversions(i + 1)

RECURSIVE OutputConversions(_)
\* its temporary to output j (0-based), for each output from j on that is not dense
OutputConversions(j) ==
  IF j >= Len(outputs) THEN <<>>
  ELSE (IF Staged(outputs, j) THEN <<Cast(Temp("outputs", j), Arg("outputs", j))>> ELSE <<>>)
       \o OutputConversions(j + 1)

RECURSIVE MutatedConversions(_)
\* its temporary to the original input, for each element of mutate_idx from
\* the k-th (1-based) on whose input was staged
MutatedConversions(k) ==
  IF k > Len(mutate_idx) THEN <<>>
  ELSE (IF Staged(inputs, mutate_idx[k])
        THEN <<Cast(Temp("inputs", mutate_idx[k]), Arg("inputs", mutate_idx[k]))>>
        ELSE <<>>)
       \o MutatedConversions(k + 1)

Registered(src, dst) == [i \in 1..Len(src) |-> Cast(src[i], dst[i])]

\* C8: the pre-step conversions all precede the compute step and the
\* post-step conversions all follow it, in the order registered: staged
\* outputs first, then mutated inputs in mutate_idx order, each copied from
\* the input's temporary to the original input; a dense mutated input and an
\* all-dense call register nothing; a compute step that raises is followed by
\* no post-step conversion.
C8_FallbackOrder ==
  /\ pc \notin {"none", "setup"}
       => /\ Registered(pre_temp_src, pre_temp_dst) = PreConversions(0)
          /\ Registered(post_temp_src, post_temp_dst)
               = OutputConversions(0) \o MutatedConversions(1)
  /\ pc = "fcompute" => trace = PreConversions(0)
  /\ pc \in {"cast_post", "raised"}
       => /\ Len(trace) = Len(PreConversions(0)) + 1
          /\ SubSeq(trace, 1, Len(trace) - 1) = PreConversions(0)
          /\ trace[Len(trace)].op = "fcompute"
  /\ pc = "done"
       => /\ Len(trace) > Len(PreConversions(0))
          /\ SubSeq(trace, 1, Len(PreConversions(0))) = PreConversions(0)
          /\ trace[Len(PreConversions(0)) + 1].op = "fcompute"
          /\ SubSeq(trace, Len(PreConversions(0)) + 2, Len(trace))
               = OutputConversions(0) \o MutatedConversions(1)

\* a call ran to its end with a staged output, a staged mutated input and a
\* dense mutated input
C8_Witness ==
  /\ pc = "done"
  /\ \E j \in 0..(Len(outputs) - 1) : Staged(outputs, j)
  /\ \E k \in 1..Len(mutate_idx) : Staged(inputs, mutate_idx[k])
  /\ \E k \in 1..Len(mutate_idx) :
       mutate_idx[k] < Len(inputs) /\ ~Staged(inputs, mutate_idx[k])

====
